---------------------------- MODULE Spec2Model ----------------------------
(***************************************************************************)
(* Deadline tracker: the reminder dispatcher (send_reminders), the Asana   *)
(* reconciler (sync_asana) and the web operations that edit the rows the   *)
(* two jobs read, over the relational store of deadlines/models.py.        *)
(*                                                                         *)
(* Dates are day numbers.  A Python string that is searched or compared    *)
(* character by character (a task or type name) is a sequence of           *)
(* one-character strings; a string that is only sliced (task notes) is a   *)
(* run [ch, n] of n copies of one character; identifiers and e-mail        *)
(* addresses, only compared for equality, are TLA+ strings.                *)
(***************************************************************************)
EXTENDS Integers, Sequences, FiniteSets, TLC

VARIABLES
    now,            \* the wall clock's calendar day (timezone.localdate())
    matters,        \* Matter rows: pk -> [client, matter_type, status, asana_project_id]
    deadlineTypes,  \* DeadlineType rows, in the order DeadlineType.objects.all() yields them
    deadlines,      \* Deadline rows: a sequence, pk = index
    reminderLogs,   \* ReminderLog rows, in creation order
    outbox,         \* e-mails the transport accepted, in order
    asana,          \* the external system: project gid -> what get_tasks_for_project yields
    token,          \* settings.ASANA_ACCESS_TOKEN is set
    disp,           \* the running send_reminders command (its locals and position)
    sync,           \* the running sync_asana command (its locals and position)
    match,          \* one call of _match_deadline_type: [pc, task_name, result]
    hist            \* observations of the runs made so far (for the properties only)

vars == <<now, matters, deadlineTypes, deadlines, reminderLogs, outbox, asana,
          token, disp, sync, match, hist>>

-----------------------------------------------------------------------------
(* Bounds of the model *)

MaxNameLen == 3      \* longest task name given to _match_deadline_type
MaxTypes == 2        \* most DeadlineType rows in a matching table
MaxEvents == 3       \* job runs started, midnights, web edits and external
                     \* changes in one behaviour, taken together
MaxChanges == 1      \* web edits and external changes among them
MaxDays == 9         \* midnights in a behaviour of one run per day

-----------------------------------------------------------------------------
(* Python values *)

\* an optional value: <<>> is Python's None, <<v>> is the value v
NoValue == <<>>

Some(v) == <<v>>

Min(a, b) == IF a <= b THEN a ELSE b

Chars == {"a", "b", "A", "B"}

\* str.lower() on one character
LowerChar(c) == CASE c = "A" -> "a" [] c = "B" -> "b" [] OTHER -> c

\* str.lower()
Lower(s) == [i \in 1..Len(s) |-> LowerChar(s[i])]

\* Python's `x in y` on two strings: x occurs in y as a contiguous run
StrIn(x, y) ==
    \E i \in 0..(Len(y) - Len(x)) : \A j \in 1..Len(x) : y[i + j] = x[j]

\* all strings over Chars of length at most n
StringsUpTo(n) == UNION {[1..k -> Chars] : k \in 0..n}


\* str.strip(): leading and trailing blanks removed
RECURSIVE LStrip(_)
LStrip(s) == IF s # <<>> /\ Head(s) = " " THEN LStrip(Tail(s)) ELSE s

RECURSIVE RStrip(_)
RStrip(s) ==
    IF s # <<>> /\ s[Len(s)] = " " THEN RStrip(SubSeq(s, 1, Len(s) - 1)) ELSE s

Strip(s) == RStrip(LStrip(s))

-----------------------------------------------------------------------------
(* sync_asana: matching a task name to a DeadlineType *)

\* `return None` of _match_deadline_type; DeadlineType pks start at 1
NoType == 0

\* d[key] = dt on a Python dict, kept as its items in insertion order: a key
\* already present keeps its place and takes the new value
DictSet(d, key, dt) ==
    IF \E i \in 1..Len(d) : d[i].key = key
    THEN [i \in 1..Len(d) |-> IF d[i].key = key THEN [key |-> key, dt |-> dt] ELSE d[i]]
    ELSE Append(d, [key |-> key, dt |-> dt])

\* how a database collation ranks the characters: by code point, or letters
\* first and case after (rows that differ only in case then come in any order)
Collations ==
    { [c \in Chars \cup {" "} |->
          CASE c = " " -> 0 [] c = "A" -> 1 [] c = "B" -> 2 [] c = "a" -> 3
            [] OTHER -> 4],
      [c \in Chars \cup {" "} |->
          CASE c = " " -> 0 [] c \in {"a", "A"} -> 1 [] OTHER -> 2] }

\* x sorts strictly before y under the ranking
LexLess(x, y, rank) ==
    \E k \in 1..(Min(Len(x), Len(y)) + 1) :
        /\ \A j \in 1..(k - 1) : rank[x[j]] = rank[y[j]]
        /\ k <= Len(y)
        /\ k <= Len(x) => rank[x[k]] < rank[y[k]]

\* DeadlineType.Meta.ordering = ['matter_type', 'name']
TypeBefore(a, b, rank) ==
    \/ a.matter_type = "land_use" /\ b.matter_type = "transaction"
    \/ a.matter_type = b.matter_type /\ LexLess(a.name, b.name, rank)

\* the orders in which DeadlineType.objects.all() may yield the rows
TypeOrders(types) ==
    {o \in [1..Len(types) -> 1..Len(types)] :
        /\ \A i, j \in 1..Len(types) : i # j => o[i] # o[j]
        /\ \E rank \in Collations :
              \A i, j \in 1..Len(types) :
                  i < j => ~TypeBefore(types[o[j]], types[o[i]], rank)}

\* {dt.name.lower(): dt for dt in DeadlineType.objects.all()}, over the first
\* n rows the query yields
RECURSIVE TypeDictUpTo(_, _, _)
TypeDictUpTo(types, order, n) ==
    IF n = 0 THEN <<>>
    ELSE DictSet(TypeDictUpTo(types, order, n - 1),
                 Lower(types[order[n]].name), order[n])

TypeDict(types, order) == TypeDictUpTo(types, order, Len(types))

\* the first of the positions in hits, in iteration order; 0 if there is none
FirstItem(hits) ==
    IF hits = {} THEN 0 ELSE CHOOSE i \in hits : \A j \in hits : i <= j

\* mutant: the two containment rules tried in the other order
MatchDeadlineTypeSwapped(task_name, deadline_types) ==
    LET name_lower == Lower(task_name)
        items == DOMAIN deadline_types
        e == FirstItem({i \in items : deadline_types[i].key = name_lower})
        b == FirstItem({i \in items : StrIn(deadline_types[i].key, name_lower)})
        c == FirstItem({i \in items : StrIn(name_lower, deadline_types[i].key)})
    IN  IF e # 0 THEN deadline_types[e].dt
        ELSE IF c # 0 THEN deadline_types[c].dt
        ELSE IF b # 0 THEN deadline_types[b].dt
        ELSE NoType

\* Command._match_deadline_type
MatchDeadlineType(task_name, deadline_types) ==
    LET name_lower == Lower(task_name)
        items == DOMAIN deadline_types
        e == FirstItem({i \in items : deadline_types[i].key = name_lower})
        b == FirstItem({i \in items : StrIn(deadline_types[i].key, name_lower)})
        c == FirstItem({i \in items : StrIn(name_lower, deadline_types[i].key)})
    IN  IF e # 0 THEN deadline_types[e].dt
        ELSE IF b # 0 THEN deadline_types[b].dt
        ELSE IF c # 0 THEN deadline_types[c].dt
        ELSE NoType

-----------------------------------------------------------------------------
(* The store: deadlines/models.py *)

\* Client.email by client; "" is a client with no e-mail on file
ClientEmail == [c1 |-> "c1@firm.org", c2 |-> ""]

MatterStatuses == {"active", "on_hold", "closed"}

DeadlineStatuses == {"upcoming", "completed", "extended", "waived"}

\* Deadline.effective_reminder_days; reminder lists are only tested for
\* membership and emptiness, so they are kept as sets
EffectiveReminderDays(d, deadline_type) ==
    IF d.reminder_days # {} THEN d.reminder_days
    ELSE deadline_type.default_reminder_days

\* faulty variant: the error text is not stored
NewReminderLogNoError(pk, recipient, days_before, status, error_message, clock) ==
    [deadline |-> pk, sent_at |-> clock, recipient_email |-> recipient,
     days_before |-> days_before, status |-> status, error_message |-> ""]

\* a ReminderLog row; sent_at is the clock at creation (auto_now_add)
NewReminderLog(pk, recipient, days_before, status, error_message, clock) ==
    [deadline |-> pk, sent_at |-> clock, recipient_email |-> recipient,
     days_before |-> days_before, status |-> status,
     error_message |-> error_message]

\* the e-mail of the client of the matter a deadline row belongs to
RecipientOf(row, mts) == ClientEmail[mts[row.matter].client]

-----------------------------------------------------------------------------
(* send_reminders: Command.handle *)

\* a 'sent' ReminderLog of deadline pk and offset k was written on that day
SentOn(logs, pk, k, day) ==
    \E i \in 1..Len(logs) :
        logs[i] = [logs[i] EXCEPT !.deadline = pk, !.days_before = k,
                                  !.status = "sent", !.sent_at = day]

\* fetched, dup, log0, out0, skipped, store0 and seen are not locals of the
\* command: they record, for the properties, what the query returned, which
\* deadlines had a 'sent' log of their offset dated today when the run began,
\* how many logs and e-mails existed then, which deadlines the run counted as
\* skipped, the Deadline rows when the run began, and how many logs existed
\* when the run last made the already_sent query
DispIdle ==
    [pc |-> "idle", dry_run |-> FALSE, today |-> 0, queue |-> <<>>,
     sent_count |-> 0, skip_count |-> 0,
     fetched |-> <<>>, dup |-> {}, log0 |-> 0, out0 |-> 0, skipped |-> {},
     store0 |-> <<>>, seen |-> 0]

\* faulty variant: the matter's status is not looked at
UpcomingOfAnyMatter(dls, mts) ==
    {i \in 1..Len(dls) : dls[i].status = "upcoming"}

\* Deadline.objects.filter(status='upcoming', matter__status='active'): the pks
UpcomingOfActive(dls, mts) ==
    {i \in 1..Len(dls) :
        dls[i].status = "upcoming" /\ mts[dls[i].matter].status = "active"}

\* the orders in which the query may yield these rows: Meta.ordering is ['date'],
\* rows of one date come in an order the database chooses
DateOrders(dls, pks) ==
    {q \in [1..Cardinality(pks) -> pks] :
        /\ \A i, j \in DOMAIN q : i < j => q[i] # q[j]
        /\ \A i, j \in DOMAIN q : i < j => dls[q[i]].date <= dls[q[j]].date}

\* one fetched Deadline object with its select_related matter, client and type
Fetched(pk, dls, mts, types) ==
    [pk |-> pk, row |-> dls[pk], deadline_type |-> types[dls[pk].deadline_type],
     recipient |-> RecipientOf(dls[pk], mts)]

\* faulty variant: the filter names the wrong status
AlreadySentWrongStatus(logs, pk, days_until, today) ==
    \E i \in 1..Len(logs) :
        /\ logs[i].deadline = pk
        /\ logs[i].days_before = days_until
        /\ logs[i].status = "failed"
        /\ logs[i].sent_at = today

\* faulty variant: a log of any status counts
AlreadySentAnyStatus(logs, pk, days_until, today) ==
    \E i \in 1..Len(logs) :
        /\ logs[i].deadline = pk
        /\ logs[i].days_before = days_until
        /\ logs[i].sent_at = today

\* faulty variant: the offset is not part of the filter
AlreadySentAnyOffset(logs, pk, days_until, today) ==
    \E i \in 1..Len(logs) :
        /\ logs[i].deadline = pk
        /\ logs[i].status = "sent"
        /\ logs[i].sent_at = today

\* lines 75-81: a 'sent' log of this deadline and offset dated today exists
AlreadySent(logs, pk, days_until, today) ==
    \E i \in 1..Len(logs) :
        /\ logs[i].deadline = pk
        /\ logs[i].days_before = days_until
        /\ logs[i].status = "sent"
        /\ logs[i].sent_at = today

\* faulty variant: the overdue window closes one day early
DecideOffByOne(dl, today, logs) ==
    LET days_until == dl.row.date - today
        reminder_days == EffectiveReminderDays(dl.row, dl.deadline_type)
    IN  IF ~(days_until \in reminder_days) /\ days_until >= 0 THEN "continue"
        ELSE IF days_until < 0 /\ days_until <= -7 THEN "continue"
        ELSE IF dl.recipient = "" THEN "no_email"
        ELSE IF AlreadySent(logs, dl.pk, days_until, today) THEN "already_sent"
        ELSE "attempt"

\* faulty variant: the overdue window never closes
DecideNoWindow(dl, today, logs) ==
    LET days_until == dl.row.date - today
        reminder_days == EffectiveReminderDays(dl.row, dl.deadline_type)
    IN  IF ~(days_until \in reminder_days) /\ days_until >= 0 THEN "continue"
        ELSE IF dl.recipient = "" THEN "no_email"
        ELSE IF AlreadySent(logs, dl.pk, days_until, today) THEN "already_sent"
        ELSE "attempt"

\* faulty variant: a deadline whose client has no e-mail goes on to delivery
DecideEmailUnchecked(dl, today, logs) ==
    LET days_until == dl.row.date - today
        reminder_days == EffectiveReminderDays(dl.row, dl.deadline_type)
    IN  IF ~(days_until \in reminder_days) /\ days_until >= 0 THEN "continue"
        ELSE IF days_until < 0 /\ days_until < -7 THEN "continue"
        ELSE IF AlreadySent(logs, dl.pk, days_until, today) THEN "already_sent"
        ELSE "attempt"

\* lines 54-89: what the loop body decides for one fetched deadline
Decide(dl, today, logs) ==
    LET days_until == dl.row.date - today
        reminder_days == EffectiveReminderDays(dl.row, dl.deadline_type)
    IN  IF ~(days_until \in reminder_days) /\ days_until >= 0 THEN "continue"
        ELSE IF days_until < 0 /\ days_until < -7 THEN "continue"
        ELSE IF dl.recipient = "" THEN "no_email"
        ELSE IF AlreadySent(logs, dl.pk, days_until, today) THEN "already_sent"
        ELSE "attempt"

\* what the properties observe of the last step a job took
NoStep == [op |-> "none"]

\* lines 36-53: options, today, the query; the run is process p
DispatchStart(p, dry_run) ==
    /\ disp[p].pc = "idle"
    /\ hist.left > 0
    /\ \E q \in DateOrders(deadlines, UpcomingOfActive(deadlines, matters)) :
          LET rows == [i \in DOMAIN q |->
                          Fetched(q[i], deadlines, matters, deadlineTypes)]
          IN  disp' = [disp EXCEPT ![p] =
                      [pc |-> "loop", dry_run |-> dry_run, today |-> now,
                       queue |-> rows, sent_count |-> 0, skip_count |-> 0,
                       fetched |-> rows,
                       dup |-> {pk \in 1..Len(deadlines) :
                                  SentOn(reminderLogs, pk,
                                         deadlines[pk].date - now, now)},
                       log0 |-> Len(reminderLogs), out0 |-> Len(outbox),
                       skipped |-> {}, store0 |-> deadlines, seen |-> 0]]
    /\ hist' = [hist EXCEPT !.left = @ - 1,
                            !.last = [op |-> "start", job |-> "send_reminders", p |-> p],
                            !.overlap = IF \E q \in DOMAIN disp : q # p /\ disp[q].pc # "idle"
                                        THEN @ \cup {"send_reminders"} ELSE @]
    /\ UNCHANGED <<now, matters, deadlineTypes, deadlines, reminderLogs, outbox,
                   asana, token, sync, match>>

\* lines 53-89: the next fetched deadline is skipped, or goes on to delivery
DispatchCheck(p) ==
    /\ disp[p].pc = "loop"
    /\ disp[p].queue # <<>>
    /\ LET dl == Head(disp[p].queue)
           decision == Decide(dl, disp[p].today, reminderLogs)
       IN  /\ disp' = [disp EXCEPT ![p] =
                 CASE decision = "continue" -> [@ EXCEPT !.queue = Tail(@)]
                   [] decision \in {"no_email", "already_sent"} ->
                        [@ EXCEPT !.queue = Tail(@), !.skip_count = @ + 1,
                                  !.skipped = @ \cup {dl.pk}]
                   [] OTHER -> [@ EXCEPT !.pc = "send",
                                         !.seen = Len(reminderLogs)]]
           /\ hist' = [hist EXCEPT !.last =
                 [op |-> "check", p |-> p, dl |-> dl,
                  days_until |-> dl.row.date - disp[p].today]]
    /\ UNCHANGED <<now, matters, deadlineTypes, deadlines, reminderLogs, outbox,
                   asana, token, sync, match>>

\* lines 106-135: the e-mail is handed to the transport, which accepts it or
\* raises; the outcome is logged
DispatchSend(p, delivered) ==
    /\ disp[p].pc = "send"
    /\ LET dl == Head(disp[p].queue)
           days_until == dl.row.date - disp[p].today
       IN  IF disp[p].dry_run
           THEN /\ delivered
                /\ disp' = [disp EXCEPT ![p] =
                      [@ EXCEPT !.pc = "loop", !.queue = Tail(@), !.sent_count = @ + 1]]
                /\ hist' = [hist EXCEPT !.last =
                      [op |-> "send", p |-> p, dl |-> dl, days_until |-> days_until,
                       outcome |-> "dry"]]
                /\ UNCHANGED <<reminderLogs, outbox>>
           ELSE IF delivered
           THEN /\ outbox' = Append(outbox,
                      [to |-> dl.recipient, deadline |-> dl.pk,
                       date |-> dl.row.date, days_until |-> days_until,
                       day |-> now])
                /\ reminderLogs' = Append(reminderLogs,
                      NewReminderLog(dl.pk, dl.recipient, days_until, "sent", "", now))
                /\ disp' = [disp EXCEPT ![p] =
                      [@ EXCEPT !.pc = "loop", !.queue = Tail(@), !.sent_count = @ + 1]]
                /\ hist' = [hist EXCEPT !.last =
                      [op |-> "send", p |-> p, dl |-> dl, days_until |-> days_until,
                       outcome |-> "sent"]]
           ELSE /\ reminderLogs' = Append(reminderLogs,
                      NewReminderLog(dl.pk, dl.recipient, days_until, "failed",
                                     "smtp error", now))
                /\ disp' = [disp EXCEPT ![p] =
                      [@ EXCEPT !.pc = "loop", !.queue = Tail(@)]]
                /\ hist' = [hist EXCEPT !.last =
                      [op |-> "send", p |-> p, dl |-> dl, days_until |-> days_until,
                       outcome |-> "failed"]]
                /\ UNCHANGED outbox
    /\ UNCHANGED <<now, matters, deadlineTypes, deadlines, asana, token, sync, match>>

\* lines 137-146: the summary; the command returns
DispatchFinish(p) ==
    /\ disp[p].pc = "loop"
    /\ disp[p].queue = <<>>
    /\ disp' = [disp EXCEPT ![p] = DispIdle]
    /\ hist' = [hist EXCEPT
          !.last = [op |-> "summary", job |-> "send_reminders", run |-> disp[p],
                    before |-> hist.prev_sent],
          !.prev_sent = <<disp[p]>>]
    /\ UNCHANGED <<now, matters, deadlineTypes, deadlines, reminderLogs, outbox,
                   asana, token, sync, match>>

-----------------------------------------------------------------------------
(* sync_asana: Command.handle *)

\* notes[:500]
DescriptionLimit == 500

\* s[:n] on a string of one repeated character
Prefix(s, n) == [s EXCEPT !.n = Min(s.n, n)]

\* str() of a date: the ISO rendering, equal for two dates iff the dates are
DateStr(d) == <<"iso", d>>

\* existing is the local of that name (lines 117-120), held between the query
\* and the write where the two are separate steps; errors, visited, eligible,
\* store0, changes0, seen and refused are not locals of the command: they
\* record, for the properties, the matters whose processing raised, the
\* matters fetched so far, the matters the query returned, the Deadline rows
\* when the run began, how many edits had been made by then, how many
\* Deadlines existed when the run last made the existing query, and the
\* matters whose fetch the external API refused
SyncIdle ==
    [pc |-> "idle", dry_run |-> FALSE, matter_id |-> 0, matters |-> <<>>,
     deadline_types |-> <<>>, tasks |-> <<>>, existing |-> <<>>,
     created_count |-> 0, updated_count |-> 0, skipped_count |-> 0,
     errors |-> {}, visited |-> <<>>, eligible |-> <<>>,
     store0 |-> <<>>, changes0 |-> 0, seen |-> 0, refused |-> {}]

\* faulty variant: the status of the matter is not looked at
MattersToSyncAnyStatus(mts, matter_id) ==
    LET pks == {m \in DOMAIN mts :
                   /\ mts[m].asana_project_id # ""
                   /\ (matter_id # 0 => m = matter_id)}
        Desc[S \in SUBSET DOMAIN mts] ==
            IF S = {} THEN <<>>
            ELSE LET top == CHOOSE m \in S : \A n \in S : n <= m
                 IN  <<top>> \o Desc[S \ {top}]
    IN  Desc[pks]

\* lines 60-66: the pks of the matters the run will visit, newest first
\* (Meta.ordering is ['-created_at']; rows are created in pk order);
\* matter_id = 0 is a run without --matter-id
MattersToSync(mts, matter_id) ==
    LET pks == {m \in DOMAIN mts :
                   /\ mts[m].asana_project_id # ""
                   /\ mts[m].status = "active"
                   /\ (matter_id # 0 => m = matter_id)}
        Desc[S \in SUBSET DOMAIN mts] ==
            IF S = {} THEN <<>>
            ELSE LET top == CHOOSE m \in S : \A n \in S : n <= m
                 IN  <<top>> \o Desc[S \ {top}]
    IN  Desc[pks]

\* faulty variant: the query finds nothing
ExistingForNone(dls, gid, matter) == {}

\* lines 117-120: the pks .first() may return: the rows of this matter and task
\* id with the earliest date (Meta.ordering is ['date']); none if {}
ExistingFor(dls, gid, matter) ==
    LET found == {i \in 1..Len(dls) :
                     dls[i].asana_task_id = gid /\ dls[i].matter = matter}
    IN  {i \in found : \A j \in found : dls[i].date <= dls[j].date}

\* faulty variant: a complete task completes the row whatever its status
UpdatedRowAnyStatus(row, due_on, is_completed) ==
    LET date_differs == DateStr(row.date) # DateStr(due_on)
        completes == is_completed /\ row.status # "completed"
    IN  [row |-> [row EXCEPT !.date = IF date_differs THEN due_on ELSE @,
                             !.status = IF completes THEN "completed" ELSE @],
         count |-> (IF date_differs THEN 1 ELSE 0) + (IF completes THEN 1 ELSE 0)]

\* lines 122-140: the row after the date and status updates, and how many
\* updates were counted
UpdatedRow(row, due_on, is_completed) ==
    LET date_differs == DateStr(row.date) # DateStr(due_on)
        completes == is_completed /\ row.status = "upcoming"
    IN  [row |-> [row EXCEPT !.date = IF date_differs THEN due_on ELSE @,
                             !.status = IF completes THEN "completed" ELSE @],
         count |-> (IF date_differs THEN 1 ELSE 0) + (IF completes THEN 1 ELSE 0)]

\* faulty variant: the notes are stored whole
CreatedRowWholeNotes(matter, matched_type, due_on, notes, gid, is_completed) ==
    [matter |-> matter, deadline_type |-> matched_type, date |-> due_on,
     description |-> notes, reminder_days |-> {},
     status |-> IF is_completed THEN "completed" ELSE "upcoming",
     asana_task_id |-> gid]

\* lines 143-157: the row Deadline.objects.create() inserts
CreatedRow(matter, matched_type, due_on, notes, gid, is_completed) ==
    [matter |-> matter, deadline_type |-> matched_type, date |-> due_on,
     description |-> Prefix(notes, DescriptionLimit), reminder_days |-> {},
     status |-> IF is_completed THEN "completed" ELSE "upcoming",
     asana_task_id |-> gid]

\* faulty variant: an error ends the run
AfterErrorAbort(run, matter) ==
    [run EXCEPT !.pc = "matter", !.tasks = <<>>, !.matters = <<>>,
                !.errors = @ \cup {matter}]

\* lines 160-167: the except clauses write the error; the loop over the
\* matters goes on with the next one
AfterError(run, matter) ==
    [run EXCEPT !.pc = "matter", !.tasks = <<>>, !.matters = Tail(@),
                !.errors = @ \cup {matter}]

\* faulty variant: the write is made in a dry run too
PersistAlways(dry_run, old, new) == new

\* `if not dry_run:` before each write (lines 128, 136, 148): what the table
\* holds afterwards
Persist(dry_run, old, new) == IF dry_run THEN old ELSE new

\* faulty variant: the run goes on without a token
ReturnsEarlyTokenUnchecked(tok, pks) == pks = <<>>

\* lines 44-48 and 68-70: the two early returns of handle
ReturnsEarly(tok, pks) == ~tok \/ pks = <<>>

\* lines 40-79: the token check, the matters query, the type dictionary
SyncStart(p, dry_run, matter_id) ==
    /\ sync[p].pc = "idle"
    /\ hist.left > 0
    /\ LET pks == MattersToSync(matters, matter_id)
       IN  IF ReturnsEarly(token, pks)
           THEN /\ hist' = [hist EXCEPT !.left = @ - 1,
                       !.last = [op |-> "return", job |-> "sync_asana", p |-> p,
                                 dry_run |-> dry_run, matter_id |-> matter_id,
                                 why |-> IF ~token THEN "no token" ELSE "no matters"]]
                /\ UNCHANGED sync
           ELSE /\ \E order \in TypeOrders(deadlineTypes) :
                   sync' = [sync EXCEPT ![p] =
                       [pc |-> "matter", dry_run |-> dry_run, matter_id |-> matter_id,
                        matters |-> [i \in DOMAIN pks |->
                            [pk |-> pks[i],
                             asana_project_id |-> matters[pks[i]].asana_project_id]],
                        deadline_types |-> TypeDict(deadlineTypes, order),
                        tasks |-> <<>>, existing |-> <<>>,
                        created_count |-> 0, updated_count |-> 0,
                        skipped_count |-> 0,
                        errors |-> {}, visited |-> <<>>, eligible |-> pks,
                        store0 |-> deadlines, changes0 |-> hist.changes,
                        seen |-> 0, refused |-> {}]]
                /\ hist' = [hist EXCEPT !.left = @ - 1,
                       !.last = [op |-> "start", job |-> "sync_asana", p |-> p],
                       !.overlap = IF \E q \in DOMAIN sync : q # p /\ sync[q].pc # "idle"
                                   THEN @ \cup {"sync_asana"} ELSE @]
    /\ UNCHANGED <<now, matters, deadlineTypes, deadlines, reminderLogs, outbox,
                   asana, token, disp, match>>

\* lines 79-89 and 160-163: the next matter's tasks are fetched, or the call
\* raises ApiException, which is caught and the loop goes on
SyncFetch(p, answered) ==
    /\ sync[p].pc = "matter"
    /\ sync[p].matters # <<>>
    /\ LET matter == Head(sync[p].matters)
       IN  /\ answered => matter.asana_project_id \in DOMAIN asana
           /\ sync' = [sync EXCEPT ![p] =
                 IF answered
                 THEN [@ EXCEPT !.pc = "task",
                                !.tasks = asana[matter.asana_project_id],
                                !.visited = Append(@, matter.pk)]
                 ELSE AfterError([@ EXCEPT !.visited = Append(@, matter.pk),
                                           !.refused = @ \cup {matter.pk}],
                                 matter.pk)]
           /\ hist' = [hist EXCEPT !.last =
                 [op |-> "fetch", p |-> p, matter |-> matter.pk,
                  answered |-> answered]]
    /\ UNCHANGED <<now, matters, deadlineTypes, deadlines, reminderLogs, outbox,
                   asana, token, disp, match>>

\* lines 91-158 and 164-167: one task of the current matter is skipped,
\* updates the Deadline found for it, or creates one; a task whose name is
\* None raises at .strip(), which ends this matter's tasks
SyncTask(p) ==
    /\ sync[p].pc = "task"
    /\ sync[p].tasks # <<>>
    /\ LET matter == Head(sync[p].matters)
           task == Head(sync[p].tasks)
           run == sync[p]
           next == [run EXCEPT !.tasks = Tail(@)]
       IN  IF task.name = NoValue
           THEN /\ sync' = [sync EXCEPT ![p] = AfterError(run, matter.pk)]
                /\ hist' = [hist EXCEPT !.last =
                       [op |-> "task", p |-> p, matter |-> matter.pk, task |-> task,
                        did |-> "raised", pk |-> 0]]
                /\ UNCHANGED deadlines
           ELSE
           LET task_name == Strip(task.name[1])
               matched_type == MatchDeadlineType(task_name, run.deadline_types)
               existing == IF task.due_on = NoValue \/ matched_type = NoType
                           THEN {}
                           ELSE ExistingFor(deadlines, task.gid, matter.pk)
               notes == IF task.notes = NoValue THEN [ch |-> "", n |-> 0]
                        ELSE task.notes[1]
           IN  IF task.due_on = NoValue \/ matched_type = NoType
               THEN /\ sync' = [sync EXCEPT ![p] =
                           [next EXCEPT !.skipped_count = @ + 1]]
                    /\ hist' = [hist EXCEPT !.last =
                           [op |-> "task", p |-> p, matter |-> matter.pk,
                            task |-> task, did |-> "skipped", pk |-> 0]]
                    /\ UNCHANGED deadlines
               ELSE IF existing # {}
               THEN \E pk \in existing :
                    LET u == UpdatedRow(deadlines[pk], task.due_on[1], task.completed)
                    IN  /\ deadlines' = Persist(run.dry_run, deadlines,
                                              [deadlines EXCEPT ![pk] = u.row])
                        /\ sync' = [sync EXCEPT ![p] =
                               [next EXCEPT !.updated_count = @ + u.count]]
                        /\ hist' = [hist EXCEPT !.last =
                               [op |-> "task", p |-> p, matter |-> matter.pk,
                                task |-> task, did |-> "found", pk |-> pk,
                                count |-> u.count]]
               ELSE /\ deadlines' =
                           Persist(run.dry_run, deadlines,
                               Append(deadlines,
                                   CreatedRow(matter.pk, matched_type, task.due_on[1],
                                              notes, task.gid, task.completed)))
                    /\ sync' = [sync EXCEPT ![p] =
                           [next EXCEPT !.created_count = @ + 1]]
                    /\ hist' = [hist EXCEPT !.last =
                           [op |-> "task", p |-> p, matter |-> matter.pk,
                            task |-> task, did |-> "created", pk |-> 0]]
    /\ UNCHANGED <<now, matters, deadlineTypes, reminderLogs, outbox, asana, token,
                   disp, match>>

\* lines 91-120, where the query and the write are separate steps: a task
\* that is skipped or raises is dealt with at once; for any other the
\* existing query is made and its answer held in the local
SyncLookup(p) ==
    /\ sync[p].pc = "task"
    /\ sync[p].tasks # <<>>
    /\ LET matter == Head(sync[p].matters)
           task == Head(sync[p].tasks)
       IN  IF \/ task.name = NoValue
              \/ task.due_on = NoValue
              \/ MatchDeadlineType(Strip(task.name[1]), sync[p].deadline_types)
                     = NoType
           THEN SyncTask(p)
           ELSE LET existing == ExistingFor(deadlines, task.gid, matter.pk)
                IN  /\ \E e \in IF existing = {} THEN {NoValue}
                                 ELSE {Some([pk |-> pk, row |-> deadlines[pk]]) :
                                          pk \in existing} :
                           sync' = [sync EXCEPT ![p] =
                               [@ EXCEPT !.pc = "write", !.existing = e,
                                         !.seen = Len(deadlines)]]
                    /\ hist' = [hist EXCEPT !.last =
                           [op |-> "lookup", p |-> p, matter |-> matter.pk,
                            task |-> task]]
                    /\ UNCHANGED <<now, matters, deadlineTypes, deadlines,
                                   reminderLogs, outbox, asana, token, disp, match>>

\* lines 122-158, where the query and the write are separate steps: the
\* object the query returned is changed and saved, or a Deadline is created
SyncWrite(p) ==
    /\ sync[p].pc = "write"
    /\ LET matter == Head(sync[p].matters)
           task == Head(sync[p].tasks)
           run == sync[p]
           next == [run EXCEPT !.pc = "task", !.tasks = Tail(@),
                               !.existing = NoValue]
           matched_type == MatchDeadlineType(Strip(task.name[1]),
                                             run.deadline_types)
           notes == IF task.notes = NoValue THEN [ch |-> "", n |-> 0]
                    ELSE task.notes[1]
       IN  IF run.existing # NoValue
           THEN LET pk == run.existing[1].pk
                    u == UpdatedRow(run.existing[1].row, task.due_on[1],
                                    task.completed)
                IN  /\ deadlines' =
                           Persist(run.dry_run, deadlines,
                               IF u.count > 0
                               THEN [deadlines EXCEPT ![pk] = u.row]
                               ELSE deadlines)
                    /\ sync' = [sync EXCEPT ![p] =
                           [next EXCEPT !.updated_count = @ + u.count]]
                    /\ hist' = [hist EXCEPT !.last =
                           [op |-> "task", p |-> p, matter |-> matter.pk,
                            task |-> task, did |-> "found", pk |-> pk,
                            count |-> u.count]]
           ELSE /\ deadlines' =
                       Persist(run.dry_run, deadlines,
                           Append(deadlines,
                               CreatedRow(matter.pk, matched_type, task.due_on[1],
                                          notes, task.gid, task.completed)))
                /\ sync' = [sync EXCEPT ![p] =
                       [next EXCEPT !.created_count = @ + 1]]
                /\ hist' = [hist EXCEPT !.last =
                       [op |-> "task", p |-> p, matter |-> matter.pk,
                        task |-> task, did |-> "created", pk |-> 0]]
    /\ UNCHANGED <<now, matters, deadlineTypes, reminderLogs, outbox, asana, token,
                   disp, match>>

\* line 91: the current matter's tasks are exhausted; on to the next matter
SyncMatterDone(p) ==
    /\ sync[p].pc = "task"
    /\ sync[p].tasks = <<>>
    /\ sync' = [sync EXCEPT ![p] = [@ EXCEPT !.pc = "matter", !.matters = Tail(@)]]
    /\ hist' = [hist EXCEPT !.last = [op |-> "matter done", p |-> p]]
    /\ UNCHANGED <<now, matters, deadlineTypes, deadlines, reminderLogs, outbox,
                   asana, token, disp, match>>

\* lines 169-173: the summary; the command returns
SyncFinish(p) ==
    /\ sync[p].pc = "matter"
    /\ sync[p].matters = <<>>
    /\ sync' = [sync EXCEPT ![p] = SyncIdle]
    /\ hist' = [hist EXCEPT
          !.last = [op |-> "summary", job |-> "sync_asana", run |-> sync[p],
                    store |-> deadlines, changes |-> hist.changes,
                    before |-> hist.prev],
          !.prev = <<[run |-> sync[p], store |-> deadlines]>>]
    /\ UNCHANGED <<now, matters, deadlineTypes, deadlines, reminderLogs, outbox,
                   asana, token, disp, match>>

\* the external system changes a task of a project: its due date moves or it
\* is marked complete
ExternalChange(project, i, due_on, completed) ==
    /\ hist.left > 0
    /\ hist.changes < MaxChanges
    /\ project \in DOMAIN asana
    /\ i \in 1..Len(asana[project])
    /\ asana' = [asana EXCEPT ![project][i].due_on = due_on,
                              ![project][i].completed = completed]
    /\ asana' # asana
    /\ hist' = [hist EXCEPT !.left = @ - 1, !.changes = @ + 1, !.last = NoStep]
    /\ UNCHANGED <<now, matters, deadlineTypes, deadlines, reminderLogs, outbox,
                   token, disp, sync, match>>

-----------------------------------------------------------------------------
(* The clock and the web operations of deadlines/views.py *)

\* midnight passes
Tick ==
    /\ hist.left > 0
    /\ now' = now + 1
    /\ hist' = [hist EXCEPT !.left = @ - 1, !.last = NoStep]
    /\ UNCHANGED <<matters, deadlineTypes, deadlines, reminderLogs, outbox, asana,
                   token, disp, sync, match>>

\* the dates and reminder lists a user types into DeadlineForm
FormDates == {1, 3}

FormReminderDays == {{}, {2}}

\* views.deadline_complete (POST)
DeadlineComplete(pk) ==
    /\ hist.left > 0
    /\ hist.changes < MaxChanges
    /\ pk \in 1..Len(deadlines)
    /\ deadlines' = [deadlines EXCEPT ![pk].status = "completed"]
    /\ hist' = [hist EXCEPT !.left = @ - 1, !.changes = @ + 1, !.last = NoStep]
    /\ UNCHANGED <<now, matters, deadlineTypes, reminderLogs, outbox, asana, token,
                   disp, sync, match>>

\* views.deadline_edit (POST, valid form): date, reminder_days and status are
\* the fields of DeadlineForm the two jobs read
DeadlineEdit(pk, date, reminder_days, status) ==
    /\ hist.left > 0
    /\ hist.changes < MaxChanges
    /\ pk \in 1..Len(deadlines)
    /\ deadlines' = [deadlines EXCEPT ![pk].date = date,
                                      ![pk].reminder_days = reminder_days,
                                      ![pk].status = status]
    /\ deadlines' # deadlines      \* a form that changes nothing is not an edit
    /\ hist' = [hist EXCEPT !.left = @ - 1, !.changes = @ + 1, !.last = NoStep]
    /\ UNCHANGED <<now, matters, deadlineTypes, reminderLogs, outbox, asana, token,
                   disp, sync, match>>

\* views.matter_edit (POST, valid form): the status field of MatterForm
MatterEdit(pk, status) ==
    /\ hist.left > 0
    /\ hist.changes < MaxChanges
    /\ pk \in DOMAIN matters
    /\ matters[pk].status # status
    /\ matters' = [matters EXCEPT ![pk].status = status]
    /\ hist' = [hist EXCEPT !.left = @ - 1, !.changes = @ + 1, !.last = NoStep]
    /\ UNCHANGED <<now, deadlineTypes, deadlines, reminderLogs, outbox, asana, token,
                   disp, sync, match>>

\* views.matter_edit (POST, valid form): the asana_project_id field of
\* MatterForm, which may be left blank
MatterEditProject(pk, asana_project_id) ==
    /\ hist.left > 0
    /\ hist.changes < MaxChanges
    /\ pk \in DOMAIN matters
    /\ matters[pk].asana_project_id # asana_project_id
    /\ matters' = [matters EXCEPT ![pk].asana_project_id = asana_project_id]
    /\ hist' = [hist EXCEPT !.left = @ - 1, !.changes = @ + 1, !.last = NoStep]
    /\ UNCHANGED <<now, deadlineTypes, deadlines, reminderLogs, outbox, asana, token,
                   disp, sync, match>>

-----------------------------------------------------------------------------
(* The rows the behaviours start from *)

\* the processes that may run a management command
Procs == {1, 2}

MattersAtStart ==
    [m \in {1, 2} |->
        IF m = 1
        THEN [client |-> "c1", matter_type |-> "transaction", status |-> "active",
              asana_project_id |-> "p1"]
        ELSE [client |-> "c2", matter_type |-> "land_use", status |-> "active",
              asana_project_id |-> "p2"]]

TypesAtStart ==
    << [name |-> <<"A", "b">>, matter_type |-> "transaction",
        default_reminder_days |-> {2, 1}],
       [name |-> <<"B">>, matter_type |-> "land_use",
        default_reminder_days |-> {1}] >>

\* a string of n copies of ch
Run(ch, n) == [ch |-> ch, n |-> n]

\* a Deadline entered by hand (deadline_add): no asana_task_id
ManualDeadline(matter, date, reminder_days, status) ==
    [matter |-> matter, deadline_type |-> matter, date |-> date,
     description |-> Run("x", 0), reminder_days |-> reminder_days,
     status |-> status, asana_task_id |-> ""]

\* left is the number of runs, midnights, edits and external changes the
\* behaviour may still take; changes counts the edits and external changes
\* made; last is the step just taken; prev is the last finished sync run and
\* prev_sent the last finished dispatcher run; overlap holds the jobs of
\* which a run was started while another run of the same job was in progress
HistAtStart(budget) ==
    [left |-> budget, changes |-> 0, last |-> NoStep, prev |-> <<>>,
     prev_sent |-> <<>>, overlap |-> {}]

MatchIdle == [pc |-> "idle"]

\* everything but the deadlines and the external tasks
InitRest(budget) ==
    /\ now = 0
    /\ matters = MattersAtStart
    /\ deadlineTypes = TypesAtStart
    /\ reminderLogs = <<>>
    /\ outbox = <<>>
    /\ token = TRUE
    /\ disp = [p \in Procs |-> DispIdle]
    /\ sync = [p \in Procs |-> SyncIdle]
    /\ match = MatchIdle
    /\ hist = HistAtStart(budget)

-----------------------------------------------------------------------------
(* SpecRemind: the dispatcher, run by one process at a time, with the clock *)
(* and the web edits                                                        *)

RemindDates == {-8, -7, 0, 2, 3}

InitRemind ==
    /\ InitRest(MaxEvents)
    /\ asana = [pr \in {"p1", "p2"} |-> <<>>]
    /\ \E d1 \in RemindDates, r1 \in {{}, {3}}, m2 \in {1, 2}, d2 \in {-7, 2} :
          deadlines = << ManualDeadline(1, d1, r1, "upcoming"),
                         ManualDeadline(m2, d2, {}, "upcoming") >>

WebEdit ==
    \/ \E pk \in 1..Len(deadlines) : DeadlineComplete(pk)
    \/ \E pk \in 1..Len(deadlines), date \in FormDates :
          DeadlineEdit(pk, date, deadlines[pk].reminder_days, deadlines[pk].status)
    \/ \E pk \in 1..Len(deadlines), reminder_days \in FormReminderDays :
          DeadlineEdit(pk, deadlines[pk].date, reminder_days, deadlines[pk].status)
    \/ \E pk \in 1..Len(deadlines), status \in DeadlineStatuses :
          DeadlineEdit(pk, deadlines[pk].date, deadlines[pk].reminder_days, status)
    \/ \E pk \in DOMAIN matters, status \in MatterStatuses : MatterEdit(pk, status)

Dispatcher(p) ==
    \/ \E dry_run \in BOOLEAN : DispatchStart(p, dry_run)
    \/ DispatchCheck(p)
    \/ \E delivered \in BOOLEAN : DispatchSend(p, delivered)
    \/ DispatchFinish(p)

NextRemind == Dispatcher(1) \/ Tick \/ WebEdit

SpecRemind == InitRemind /\ [][NextRemind]_vars

-----------------------------------------------------------------------------
(* SpecSync: the sync job, run by one process at a time, with the changes   *)
(* made meanwhile in the external system and through the web forms          *)

\* a task as get_tasks_for_project returns it (opt_fields, line 84)
Task(name, due_on, gid, completed, notes) ==
    [name |-> name, due_on |-> due_on, gid |-> gid, completed |-> completed,
     notes |-> notes]

\* the task lists project p1 may hold when a behaviour starts
TasksAtStart ==
    { \* a completed task with a trailing space and notes one over the limit,
      \* then a task with notes at the limit
      << Task(Some(<<"B", " ">>), Some(6), "g2", TRUE,
              Some(Run("n", DescriptionLimit + 1))),
         Task(Some(<<"A", "b">>), Some(5), "g1", FALSE,
              Some(Run("n", DescriptionLimit))) >>,
      \* a task without a due date, then one no type matches
      << Task(Some(<<"a">>), NoValue, "g3", FALSE, NoValue),
         Task(Some(<<"A", "A">>), Some(5), "g4", FALSE, NoValue) >>,
      \* a task whose name is None between two good ones
      << Task(Some(<<"A", "b">>), Some(5), "g1", FALSE, NoValue),
         Task(NoValue, Some(5), "g5", FALSE, NoValue),
         Task(Some(<<"B">>), Some(6), "g2", FALSE, NoValue) >>,
      \* a task that carries no gid: getattr gives ''
      << Task(Some(<<"a">>), Some(9), "", FALSE, Some(Run("n", 2))) >>,
      \* two tasks that carry no gid
      << Task(Some(<<"A", "b">>), Some(9), "", FALSE, NoValue),
         Task(Some(<<"B">>), Some(6), "", TRUE, NoValue) >> }

InitSync ==
    /\ InitRest(MaxEvents)
    /\ \E t1 \in TasksAtStart :
          asana = [pr \in {"p1", "p2"} |->
                      IF pr = "p1" THEN t1
                      ELSE << Task(Some(<<"B">>), Some(4), "g9", FALSE, NoValue) >>]
    /\ deadlines \in { <<>>,
                       << ManualDeadline(1, 5, {}, "upcoming"),
                          ManualDeadline(1, 7, {}, "upcoming") >> }

\* the dates a task is moved to
MovedDates == {8}

ExternalEdit ==
    \E pr \in DOMAIN asana, i \in 1..2, moved \in BOOLEAN, completed \in BOOLEAN,
       d \in MovedDates :
        /\ i <= Len(asana[pr])
        /\ ExternalChange(pr, i,
                          IF moved THEN Some(d) ELSE asana[pr][i].due_on,
                          IF completed THEN TRUE ELSE asana[pr][i].completed)

\* the web edits the sync job can see
SyncSideEdit ==
    \/ \E pk \in 1..Len(deadlines), date \in FormDates :
          DeadlineEdit(pk, date, deadlines[pk].reminder_days, deadlines[pk].status)
    \/ \E pk \in 1..Len(deadlines), status \in {"upcoming", "extended"} :
          DeadlineEdit(pk, deadlines[pk].date, deadlines[pk].reminder_days, status)
    \/ \E pk \in DOMAIN matters, status \in {"active", "closed"} :
          MatterEdit(pk, status)

Syncer(p) ==
    \/ \E dry_run \in BOOLEAN, matter_id \in {0, 1} : SyncStart(p, dry_run, matter_id)
    \/ \E answered \in BOOLEAN : SyncFetch(p, answered)
    \/ SyncTask(p)
    \/ SyncMatterDone(p)
    \/ SyncFinish(p)

NextSync == Syncer(1) \/ ExternalEdit \/ SyncSideEdit

SpecSync == InitSync /\ [][NextSync]_vars

-----------------------------------------------------------------------------
(* SpecMatch: _match_deadline_type applied to a task name and the dictionary *)
(* built from a table of DeadlineTypes                                       *)

\* the DeadlineType rows a table is drawn from: names that contain one
\* another, and two names that differ only in case
TypePool ==
    { [name |-> <<"a">>, matter_type |-> "transaction",
       default_reminder_days |-> {1}],
      [name |-> <<"A", "b">>, matter_type |-> "transaction",
       default_reminder_days |-> {2, 1}],
      [name |-> <<"a", "b">>, matter_type |-> "land_use",
       default_reminder_days |-> {1}],
      [name |-> <<"B">>, matter_type |-> "land_use",
       default_reminder_days |-> {1}],
      [name |-> <<"a", "b", "a">>, matter_type |-> "transaction",
       default_reminder_days |-> {1}] }

\* tables of at most MaxTypes different rows
TypeTables ==
    UNION { {t \in [1..k -> TypePool] : \A i, j \in 1..k : i # j => t[i] # t[j]} :
            k \in 0..MaxTypes }

InitMatch ==
    /\ now = 0
    /\ matters = MattersAtStart
    /\ deadlineTypes \in TypeTables
    /\ deadlines = <<>>
    /\ reminderLogs = <<>>
    /\ outbox = <<>>
    /\ asana = [pr \in {"p1", "p2"} |-> <<>>]
    /\ token = TRUE
    /\ disp = [p \in Procs |-> DispIdle]
    /\ sync = [p \in Procs |-> SyncIdle]
    /\ match = MatchIdle
    /\ hist = HistAtStart(MaxEvents)

\* lines 73 and 104: the dictionary is built and a stripped task name is
\* looked up in it
MatchCall(task_name) ==
    /\ match.pc = "idle"
    /\ \E order \in TypeOrders(deadlineTypes) :
          match' = [pc |-> "done", task_name |-> task_name,
                    result |-> MatchDeadlineType(task_name,
                                   TypeDict(deadlineTypes, order))]
    /\ UNCHANGED <<now, matters, deadlineTypes, deadlines, reminderLogs, outbox,
                   asana, token, disp, sync, hist>>

NextMatch == \E task_name \in StringsUpTo(MaxNameLen) : MatchCall(task_name)

SpecMatch == InitMatch /\ [][NextMatch]_vars

-----------------------------------------------------------------------------
(* SpecDaily: one dispatcher run a day, not a dry run, every e-mail         *)
(* accepted, nothing edited                                                  *)

InitDaily ==
    /\ InitRest(2 * MaxDays + 1)
    /\ asana = [pr \in {"p1", "p2"} |-> <<>>]
    /\ \E d1 \in {-1, 0, 1}, r1 \in {{}, {3}}, d2 \in {-7, 2} :
          deadlines = << ManualDeadline(1, d1, r1, "upcoming"),
                         ManualDeadline(1, d2, {}, "upcoming") >>

NextDaily ==
    \/ hist.last.op = "none" /\ DispatchStart(1, FALSE)
    \/ DispatchCheck(1)
    \/ DispatchSend(1, TRUE)
    \/ DispatchFinish(1)
    \/ hist.last.op = "summary" /\ Tick

SpecDaily == InitDaily /\ [][NextDaily]_vars

-----------------------------------------------------------------------------
(* Spec: both jobs, the clock, the web edits and the external changes *)

Init ==
    /\ InitRest(MaxEvents)
    /\ \E t1 \in { << Task(Some(<<"A", "b">>), Some(2), "g1", TRUE, NoValue) >>,
                   << Task(Some(<<"a">>), Some(1), "", FALSE, NoValue),
                      Task(Some(<<"A", "A">>), NoValue, "g4", FALSE, NoValue) >> } :
          asana = [pr \in {"p1", "p2"} |->
                      IF pr = "p1" THEN t1
                      ELSE << Task(Some(<<"B">>), Some(4), "g9", FALSE, NoValue) >>]
    /\ deadlines = << ManualDeadline(1, 2, {}, "upcoming"),
                      ManualDeadline(2, 1, {}, "upcoming") >>

Next == Dispatcher(1) \/ Syncer(1) \/ Tick \/ WebEdit \/ ExternalEdit

Spec == Init /\ [][Next]_vars

-----------------------------------------------------------------------------
(* Properties of the dispatcher *)

\* the send condition as the specification words it: the offset is one of the
\* reminder days or the deadline is overdue, but not by more than 7 days
SendCondition(k, days) == (k \in days \/ k < 0) /\ ~(k < -7)

\* effective_reminder_days as the specification words it
OwnOrDefaultDays(row) ==
    IF row.reminder_days # {} THEN row.reminder_days
    ELSE deadlineTypes[row.deadline_type].default_reminder_days

\* at most one 'sent' log per (deadline, days_before, day of sent_at)
AtMostOneSentPerDay ==
    \A i, j \in 1..Len(reminderLogs) :
        (/\ i < j
         /\ reminderLogs[i].status = "sent"
         /\ reminderLogs[j].status = "sent"
         /\ reminderLogs[i].deadline = reminderLogs[j].deadline
         /\ reminderLogs[i].days_before = reminderLogs[j].days_before)
        => reminderLogs[i].sent_at # reminderLogs[j].sent_at

\* a run sends and logs nothing for a deadline that already had a 'sent' log
\* of its offset dated the day the run began
NoSecondSend ==
    \A p \in Procs :
        disp[p].pc # "idle" =>
            /\ \A i \in (disp[p].log0 + 1)..Len(reminderLogs) :
                  reminderLogs[i].deadline \notin disp[p].dup
            /\ \A i \in (disp[p].out0 + 1)..Len(outbox) :
                  outbox[i].deadline \notin disp[p].dup

DispatchSummary == hist.last.op = "summary" /\ hist.last.job = "send_reminders"

\* C1 as claimed: after a 'sent' log for deadline D at offset k, a later run of
\* the same day that computes the same offset k for D sends nothing and logs
\* nothing for D and counts D as skipped; at most one 'sent' log exists per
\* (deadline, days_before, day)
C1_DedupCountsSkip ==
    /\ AtMostOneSentPerDay
    /\ NoSecondSend
    /\ DispatchSummary =>
          \A i \in DOMAIN hist.last.run.fetched :
              hist.last.run.fetched[i].pk \in hist.last.run.dup
                  => hist.last.run.fetched[i].pk \in hist.last.run.skipped

\* C1 as amended: the same, D being counted as skipped provided k still meets
\* the send condition in the later run (k is still one of D's effective
\* reminder days, or D is overdue by at most 7 days)
C1_Dedup ==
    /\ AtMostOneSentPerDay
    /\ NoSecondSend
    /\ DispatchSummary =>
          \A i \in DOMAIN hist.last.run.fetched :
              LET dl == hist.last.run.fetched[i]
              IN  (/\ dl.pk \in hist.last.run.dup
                   /\ SendCondition(dl.row.date - hist.last.run.today,
                                    OwnOrDefaultDays(dl.row)))
                  => dl.pk \in hist.last.run.skipped

\* a later run of the same day met a deadline already reminded at its offset
\* and counted it as skipped
C1_Witness ==
    /\ DispatchSummary
    /\ hist.last.run.dup \cap hist.last.run.skipped # {}
    /\ Len(reminderLogs) = hist.last.run.log0

\* the dispatcher process p took a step of the given kind
CheckStep(p) ==
    disp[p].pc = "loop" /\ disp[p].queue # <<>> /\ disp'[p] # disp[p]

SendStep(p) == disp[p].pc = "send" /\ disp'[p] # disp[p]

StartStep(p) == disp[p].pc = "idle" /\ disp'[p].pc = "loop"

FinishStep(p) == disp[p].pc # "idle" /\ disp'[p].pc = "idle"

\* C2: a run examines exactly the upcoming deadlines of active matters; for
\* one whose client has an e-mail and that has no 'sent' log of its offset
\* dated today, delivery is attempted iff the offset is in the effective
\* reminder days (the deadline's own list if non-empty, else its type's
\* default) or negative, and never when the offset is below -7
C2_SendCondition ==
    [][\A p \in Procs :
        /\ StartStep(p) =>
              {disp'[p].queue[i].pk : i \in DOMAIN disp'[p].queue}
                = {pk \in 1..Len(deadlines) :
                      /\ deadlines[pk].status = "upcoming"
                      /\ matters[deadlines[pk].matter].status = "active"}
        /\ CheckStep(p) =>
              LET dl == Head(disp[p].queue)
                  k == dl.row.date - disp[p].today
              IN  (/\ ClientEmail[matters[dl.row.matter].client] # ""
                   /\ ~SentOn(reminderLogs, dl.pk, k, disp[p].today))
                  => (disp'[p].pc = "send"
                        <=> SendCondition(k, OwnOrDefaultDays(dl.row)))
        /\ (SendStep(p) /\ ~disp[p].dry_run) =>
              \/ Len(outbox') = Len(outbox) + 1
              \/ /\ Len(reminderLogs') = Len(reminderLogs) + 1
                 /\ reminderLogs'[Len(reminderLogs')].status = "failed"
       ]_vars

\* a deadline exactly 7 days overdue went on to delivery, and the e-mail was
\* accepted
C2_Witness ==
    /\ hist.last.op = "send"
    /\ hist.last.outcome = "sent"
    /\ hist.last.days_until = -7

DeliveredOn(pk, d) ==
    {i \in 1..Len(outbox) : outbox[i].deadline = pk /\ outbox[i].day = d}

\* C3: with one successful run a day that is not a dry run, a deadline that
\* stays upcoming on an active matter with a client e-mail gets exactly one
\* reminder on each day it is 1 to 7 days overdue, and none on any day it is
\* 8 or more days overdue
C3_OverdueWindow ==
    \A pk \in 1..Len(deadlines), d \in 0..now :
        (d < now \/ hist.last.op = "summary") =>
            LET k == deadlines[pk].date - d
            IN  /\ k \in (-7)..(-1) =>
                   /\ Cardinality(DeliveredOn(pk, d)) = 1
                   /\ \A i \in DeliveredOn(pk, d) : outbox[i].days_until = k
                /\ k < -7 => DeliveredOn(pk, d) = {}

\* the first deadline has been reminded on each of its seven overdue days and
\* the run of the day it is 8 days overdue has ended without a reminder
C3_Witness ==
    /\ hist.last.op = "summary"
    /\ deadlines[1].date - now = -8
    /\ {outbox[i].days_until : i \in {j \in 1..Len(outbox) : outbox[j].deadline = 1}}
          = (-7)..(-1)
    /\ DeliveredOn(1, now) = {}

-----------------------------------------------------------------------------
(* Properties of both jobs *)

\* process p takes a step of a dispatcher run made with --dry-run
DryDispatchStep(p) ==
    /\ disp'[p] # disp[p]
    /\ IF disp[p].pc = "idle" THEN disp'[p].dry_run ELSE disp[p].dry_run

\* process p takes a step of a sync run made with --dry-run
DrySyncStep(p) ==
    /\ sync'[p] # sync[p]
    /\ IF sync[p].pc = "idle" THEN sync'[p].dry_run ELSE sync[p].dry_run

\* C4: no step of a dry run of either job sends an e-mail, adds a ReminderLog,
\* adds a Deadline or changes a Deadline: the Deadline and ReminderLog rows and
\* the e-mails sent are after the step what they were before it
C4_DryRunFrame ==
    [][\A p \in Procs :
          (DryDispatchStep(p) \/ DrySyncStep(p)) =>
              UNCHANGED <<deadlines, reminderLogs, outbox>>]_vars

\* a dry dispatcher run has ended that counted a reminder, after a dry sync run
\* that counted a create and an update
C4_Witness ==
    /\ hist.last.op = "summary"
    /\ hist.last.job = "send_reminders"
    /\ hist.last.run.dry_run
    /\ hist.last.run.sent_count >= 1
    /\ hist.prev # <<>>
    /\ hist.prev[1].run.dry_run
    /\ hist.prev[1].run.created_count >= 1
    /\ hist.prev[1].run.updated_count >= 1

-----------------------------------------------------------------------------
(* Properties of the sync job *)

\* C6: when a sync run that is not a dry run has ended without error and the
\* next sync run, of the same scope, ends with no edit and no external change
\* made since the first began, the second run reports 0 created and 0 updated
\* and leaves the Deadline rows as the first left them
C6_SyncIdempotent ==
    (/\ hist.last.op = "summary"
     /\ hist.last.job = "sync_asana"
     /\ hist.last.before # <<>>)
    => LET first == hist.last.before[1]
           second == hist.last
       IN  (/\ ~first.run.dry_run
            /\ first.run.errors = {}
            /\ second.run.matter_id = first.run.matter_id
            /\ second.changes = first.run.changes0)
           => /\ second.run.created_count = 0
              /\ second.run.updated_count = 0
              /\ second.store = first.store

\* C7: _match_deadline_type returns a type whose lower-cased name equals the
\* lower-cased task name if there is one; else a type whose lower-cased name
\* occurs in the lower-cased task name if there is one; else a type whose
\* lower-cased name contains the lower-cased task name if there is one; else
\* no type
C7_MatchPrecedence ==
    match.pc = "done" =>
        LET n == Lower(match.task_name)
            T == 1..Len(deadlineTypes)
            Key(t) == Lower(deadlineTypes[t].name)
            r == match.result
        IN  IF \E t \in T : Key(t) = n
            THEN r \in T /\ Key(r) = n
            ELSE IF \E t \in T : StrIn(Key(t), n)
            THEN r \in T /\ StrIn(Key(r), n)
            ELSE IF \E t \in T : StrIn(n, Key(t))
            THEN r \in T /\ StrIn(n, Key(r))
            ELSE r = NoType

\* no type is named as the task, one type's name occurs in the task name and
\* another's contains it: the one that occurs in it was returned
C7_Witness ==
    /\ match.pc = "done"
    /\ match.result # NoType
    /\ \A t \in 1..Len(deadlineTypes) :
          Lower(deadlineTypes[t].name) # Lower(match.task_name)
    /\ \E t, u \in 1..Len(deadlineTypes) :
          /\ StrIn(Lower(deadlineTypes[t].name), Lower(match.task_name))
          /\ ~StrIn(Lower(match.task_name), Lower(deadlineTypes[t].name))
          /\ StrIn(Lower(match.task_name), Lower(deadlineTypes[u].name))

\* process p handles the next task of the matter it is syncing
TaskStep(p) ==
    sync[p].pc = "task" /\ sync[p].tasks # <<>> /\ sync'[p] # sync[p]

\* the task handled in a TaskStep has a name, a due date and a matching type
Syncable(p) ==
    LET task == Head(sync[p].tasks)
    IN  /\ task.name # NoValue
        /\ task.due_on # NoValue
        /\ MatchDeadlineType(Strip(task.name[1]), sync[p].deadline_types) # NoType

\* the Deadlines stored for the matter and the id of the task handled
StoredFor(p) ==
    {i \in 1..Len(deadlines) :
        /\ deadlines[i].matter = Head(sync[p].matters).pk
        /\ deadlines[i].asana_task_id = Head(sync[p].tasks).gid}

\* C8: when a run that is not a dry run handles a task with a due date and a
\* matched type and a Deadline of the same matter and task id exists, one such
\* Deadline gets the due date as its date if the two differ, and the status
\* 'completed' if the task is complete and the status was 'upcoming'; each of
\* the two changes adds 1 to the updated count; nothing else of that Deadline
\* and no other Deadline changes, none is created, and a status other than
\* 'upcoming' stays
C8_UpdateRule ==
    [][\A p \in Procs :
          (TaskStep(p) /\ ~sync[p].dry_run /\ Syncable(p) /\ StoredFor(p) # {}) =>
              LET task == Head(sync[p].tasks)
                  due == task.due_on[1]
              IN  \E pk \in StoredFor(p) :
                    LET old == deadlines[pk]
                        moves == old.date # due
                        completes == task.completed /\ old.status = "upcoming"
                    IN  /\ deadlines' = [deadlines EXCEPT
                              ![pk].date = IF moves THEN due ELSE old.date,
                              ![pk].status = IF completes THEN "completed"
                                             ELSE old.status]
                        /\ sync'[p].updated_count = sync[p].updated_count
                              + (IF moves THEN 1 ELSE 0)
                              + (IF completes THEN 1 ELSE 0)
                        /\ sync'[p].created_count = sync[p].created_count
                        /\ sync'[p].skipped_count = sync[p].skipped_count]_vars

\* a run that is not a dry run moved and completed a Deadline for one task,
\* which added 2 to its updated count
C8_Witness ==
    /\ hist.last.op = "task"
    /\ hist.last.did = "found"
    /\ hist.last.count = 2
    /\ hist.last.task.gid # ""
    /\ ~sync[hist.last.p].dry_run

\* C9: a run that is not a dry run creates a Deadline for a task iff the task
\* has a due date, its name matches a type and no Deadline of that matter and
\* task id exists; the new Deadline has that matter, the matched type, the due
\* date, the first 500 characters of the notes, the task id, and the status
\* 'completed' if the task is complete, else 'upcoming', and 1 is added to the
\* created count; a named task without a due date or without a matching type
\* changes no Deadline and adds exactly 1 to the skipped count, in any run
C9_CreateRule ==
    [][\A p \in Procs :
          TaskStep(p) =>
              LET task == Head(sync[p].tasks)
                  matter == Head(sync[p].matters).pk
                  notes == IF task.notes = NoValue THEN Run("", 0) ELSE task.notes[1]
                  first500 == IF notes.n > 500 THEN Run(notes.ch, 500) ELSE notes
                  created == Len(deadlines') = Len(deadlines) + 1
              IN  /\ ~sync[p].dry_run =>
                        /\ created <=> (Syncable(p) /\ StoredFor(p) = {})
                        /\ created =>
                              /\ deadlines' = Append(deadlines,
                                    [matter |-> matter,
                                     deadline_type |->
                                         MatchDeadlineType(Strip(task.name[1]),
                                                           sync[p].deadline_types),
                                     date |-> task.due_on[1],
                                     description |-> first500,
                                     reminder_days |-> {},
                                     status |-> IF task.completed THEN "completed"
                                                ELSE "upcoming",
                                     asana_task_id |-> task.gid])
                              /\ sync'[p].created_count = sync[p].created_count + 1
                  /\ (task.name # NoValue /\ ~Syncable(p)) =>
                        /\ UNCHANGED deadlines
                        /\ sync'[p].skipped_count = sync[p].skipped_count + 1
                        /\ sync'[p].created_count = sync[p].created_count
                        /\ sync'[p].updated_count = sync[p].updated_count]_vars

\* a run that is not a dry run created a Deadline from a task whose notes are
\* longer than 500 characters
C9_Witness ==
    /\ hist.last.op = "task"
    /\ hist.last.did = "created"
    /\ ~sync[hist.last.p].dry_run
    /\ hist.last.task.notes # NoValue
    /\ hist.last.task.notes[1].n > 500
    /\ deadlines[Len(deadlines)].asana_task_id = hist.last.task.gid
    /\ deadlines[Len(deadlines)].description.n = 500

\* the pks of the matters a run has yet to fetch
ToFetch(run) ==
    LET rest == IF run.pc = "task" THEN Tail(run.matters) ELSE run.matters
    IN  [i \in DOMAIN rest |-> rest[i].pk]

\* C10: whatever was raised while fetching or processing a matter's tasks, the
\* matters fetched so far followed by those still to fetch are the eligible
\* matters, a run in progress can take its next step, and at the summary
\* every eligible matter has been fetched
C10_FailureIsolated ==
    /\ \A p \in Procs :
          sync[p].pc # "idle" =>
              /\ sync[p].visited \o ToFetch(sync[p]) = sync[p].eligible
              /\ sync[p].errors \subseteq {sync[p].visited[i] :
                                              i \in DOMAIN sync[p].visited}
              /\ ENABLED (Syncer(p))
    /\ (hist.last.op = "summary" /\ hist.last.job = "sync_asana") =>
          hist.last.run.visited = hist.last.run.eligible

\* a run has ended in which the first matter's fetch or processing raised and
\* a later matter's task was then created
C10_Witness ==
    /\ hist.last.op = "summary"
    /\ hist.last.job = "sync_asana"
    /\ hist.last.run.errors = {hist.last.run.eligible[1]}
    /\ Len(hist.last.run.eligible) = 2
    /\ hist.last.run.created_count >= 1

-----------------------------------------------------------------------------
(* SpecToken: the sync job where ASANA_ACCESS_TOKEN may not be set *)

InitToken ==
    /\ now = 0
    /\ matters = MattersAtStart
    /\ deadlineTypes = TypesAtStart
    /\ deadlines \in { <<>>, << ManualDeadline(1, 5, {}, "upcoming") >> }
    /\ reminderLogs = <<>>
    /\ outbox = <<>>
    /\ asana = [pr \in {"p1", "p2"} |->
                   IF pr = "p1"
                   THEN << Task(Some(<<"A", "b">>), Some(5), "g1", FALSE, NoValue),
                           Task(Some(<<"a">>), Some(9), "", TRUE, NoValue) >>
                   ELSE << Task(Some(<<"B">>), Some(4), "g9", FALSE, NoValue) >>]
    /\ token \in BOOLEAN
    /\ disp = [p \in Procs |-> DispIdle]
    /\ sync = [p \in Procs |-> SyncIdle]
    /\ match = MatchIdle
    /\ hist = HistAtStart(MaxEvents)

SpecToken == InitToken /\ [][NextSync]_vars

\* a sync run is started and returns at once
SyncReturnStep ==
    /\ hist'.left = hist.left - 1
    /\ hist'.last.op = "return"
    /\ hist'.last.job = "sync_asana"

\* C11: while ASANA_ACCESS_TOKEN is not set no sync run, dry or not, gets as
\* far as the matters query or a call of the external API: every run started
\* returns at the token check and leaves the Deadlines, the matters and the
\* external tasks as they were
C11_NoToken ==
    [][~token =>
          /\ \A p \in Procs : sync[p].pc = "idle" /\ sync'[p] = sync[p]
          /\ SyncReturnStep =>
                /\ hist'.last.why = "no token"
                /\ UNCHANGED <<deadlines, matters, asana, reminderLogs, outbox>>]_vars

\* a run that was not a dry run returned for want of a token although an
\* active matter had a project with tasks that match a type
C11_Witness ==
    /\ ~token
    /\ hist.last.op = "return"
    /\ hist.last.why = "no token"
    /\ ~hist.last.dry_run
    /\ MattersToSync(matters, 0) # <<>>
    /\ \E pr \in DOMAIN asana : asana[pr] # <<>>

-----------------------------------------------------------------------------
(* Further properties of the dispatcher *)

\* C12: when the deadline a run examines meets the send condition and its
\* matter's client has no e-mail, the step sends nothing and writes no
\* ReminderLog, adds 1 to the skipped count and nothing to the sent count, and
\* the run goes on with the next fetched deadline
C12_NoEmailSkip ==
    [][\A p \in Procs :
          CheckStep(p) =>
              LET dl == Head(disp[p].queue)
                  k == dl.row.date - disp[p].today
              IN  (/\ SendCondition(k, OwnOrDefaultDays(dl.row))
                   /\ ClientEmail[matters[dl.row.matter].client] = "")
                  => /\ UNCHANGED <<reminderLogs, outbox>>
                     /\ disp'[p].skip_count = disp[p].skip_count + 1
                     /\ disp'[p].sent_count = disp[p].sent_count
                     /\ disp'[p].pc = "loop"
                     /\ disp'[p].queue = Tail(disp[p].queue)]_vars

\* a run that is not a dry run skipped an overdue deadline whose client has no
\* e-mail, with another deadline still to examine
C12_Witness ==
    /\ hist.last.op = "check"
    /\ hist.last.dl.recipient = ""
    /\ hist.last.days_until \in (-7)..(-1)
    /\ ~disp[hist.last.p].dry_run
    /\ disp[hist.last.p].skip_count = 1
    /\ hist.last.dl.pk \in disp[hist.last.p].skipped
    /\ disp[hist.last.p].queue # <<>>

\* the pks of the deadlines a run fetched
FetchedPks(run) == {run.fetched[i].pk : i \in DOMAIN run.fetched}

\* C13: whatever dispatcher runs, sync runs and web edits came before, the
\* deadlines a run fetches are 'upcoming' deadlines of 'active' matters at
\* that moment, the run keeps to them, and every e-mail sent and every
\* ReminderLog written is written by a delivery step of a run for one of the
\* deadlines it fetched; so a run started while a deadline is completed sends
\* nothing for it
C13_Eligibility ==
    [][/\ \A p \in Procs :
            /\ StartStep(p) =>
                  \A pk \in FetchedPks(disp'[p]) :
                      /\ deadlines[pk].status = "upcoming"
                      /\ matters[deadlines[pk].matter].status = "active"
            /\ (disp[p].pc # "idle" /\ disp'[p].pc # "idle") =>
                  disp'[p].fetched = disp[p].fetched
            /\ disp[p].pc # "idle" =>
                  \A i \in DOMAIN disp[p].queue :
                      disp[p].queue[i].pk \in FetchedPks(disp[p])
       /\ (outbox' # outbox \/ reminderLogs' # reminderLogs) =>
            \E p \in Procs :
                /\ SendStep(p)
                /\ outbox' # outbox =>
                      /\ outbox' = Append(outbox, outbox'[Len(outbox')])
                      /\ outbox'[Len(outbox')].deadline = Head(disp[p].queue).pk
                /\ reminderLogs' # reminderLogs =>
                      /\ reminderLogs' =
                            Append(reminderLogs, reminderLogs'[Len(reminderLogs')])
                      /\ reminderLogs'[Len(reminderLogs')].deadline
                            = Head(disp[p].queue).pk]_vars

\* a run delivered a reminder and passed over a deadline that was completed
\* when the run began and still is, of an active matter with a client e-mail,
\* whose offset meets the send condition
C13_Witness ==
    /\ hist.last.op = "send"
    /\ hist.last.outcome = "sent"
    /\ \E pk \in 1..Len(disp[hist.last.p].store0) :
          /\ pk \notin FetchedPks(disp[hist.last.p])
          /\ disp[hist.last.p].store0[pk].status = "completed"
          /\ deadlines[pk].status = "completed"
          /\ matters[deadlines[pk].matter].status = "active"
          /\ ClientEmail[matters[deadlines[pk].matter].client] # ""
          /\ SendCondition(deadlines[pk].date - disp[hist.last.p].today,
                           OwnOrDefaultDays(deadlines[pk]))

-----------------------------------------------------------------------------
(* SpecAdmin: the dispatcher, the clock, the web edits and the admin site's  *)
(* delete view for ReminderLog                                               *)

\* admin.py registers ReminderLog with a ModelAdmin that makes every field
\* read-only and leaves the delete permission as it is: a staff user with
\* that permission deletes row i
AdminDeleteReminderLog(i) ==
    /\ hist.left > 0
    /\ hist.changes < MaxChanges
    /\ i \in 1..Len(reminderLogs)
    /\ reminderLogs' = [j \in 1..(Len(reminderLogs) - 1) |->
                           IF j < i THEN reminderLogs[j] ELSE reminderLogs[j + 1]]
    /\ hist' = [hist EXCEPT !.left = @ - 1, !.changes = @ + 1, !.last = NoStep]
    /\ UNCHANGED <<now, matters, deadlineTypes, deadlines, outbox, asana, token,
                   disp, sync, match>>

AdminDelete == \E i \in 1..Len(reminderLogs) : AdminDeleteReminderLog(i)

NextAdmin == NextRemind \/ AdminDelete

SpecAdmin == InitRemind /\ [][NextAdmin]_vars

\* C14: every step keeps every ReminderLog row there is, field for field, and
\* a row is added only by a delivery step of a dispatcher run, one at a time
C14_LedgerAppendOnly ==
    [][/\ Len(reminderLogs') >= Len(reminderLogs)
       /\ \A i \in 1..Len(reminderLogs) : reminderLogs'[i] = reminderLogs[i]
       /\ Len(reminderLogs') > Len(reminderLogs) =>
             /\ Len(reminderLogs') = Len(reminderLogs) + 1
             /\ \E p \in Procs : SendStep(p)]_vars

-----------------------------------------------------------------------------
(* SpecScope: the sync job over matters of every status, with and without a  *)
(* project id, run with and without --matter-id                              *)

InitScope ==
    /\ now = 0
    /\ \E s1 \in MatterStatuses, s2 \in {"active", "closed"},
          p1 \in {"p1", ""}, p2 \in {"p2", ""} :
          matters = [m \in {1, 2} |->
                 [MattersAtStart[m] EXCEPT
                     !.status = IF m = 1 THEN s1 ELSE s2,
                     !.asana_project_id = IF m = 1 THEN p1 ELSE p2]]
    /\ deadlineTypes = TypesAtStart
    /\ deadlines \in { <<>>,
                       << [ManualDeadline(2, 7, {}, "upcoming")
                              EXCEPT !.asana_task_id = "g9"] >> }
    /\ reminderLogs = <<>>
    /\ outbox = <<>>
    /\ asana = [pr \in {"p1", "p2"} |->
                   IF pr = "p1"
                   THEN << Task(Some(<<"A", "b">>), Some(5), "g1", FALSE, NoValue) >>
                   ELSE << Task(Some(<<"B">>), Some(4), "g9", FALSE, NoValue) >>]
    /\ token = TRUE
    /\ disp = [p \in Procs |-> DispIdle]
    /\ sync = [p \in Procs |-> SyncIdle]
    /\ match = MatchIdle
    /\ hist = HistAtStart(MaxEvents)

ScopeEdit ==
    \/ \E pk \in DOMAIN matters, status \in MatterStatuses : MatterEdit(pk, status)
    \/ \E pk \in DOMAIN matters, pr \in {"p1", "p2", ""} : MatterEditProject(pk, pr)

ScopeSyncer(p) ==
    \/ \E dry_run \in BOOLEAN, matter_id \in {0, 1, 2} :
          SyncStart(p, dry_run, matter_id)
    \/ \E answered \in BOOLEAN : SyncFetch(p, answered)
    \/ SyncTask(p)
    \/ SyncMatterDone(p)
    \/ SyncFinish(p)

NextScope == ScopeSyncer(1) \/ ScopeEdit

SpecScope == InitScope /\ [][NextScope]_vars

\* the matters that are active and have a project id, and are the one named
\* by --matter-id if one was given (0: none given)
InScope(matter_id) ==
    {m \in DOMAIN matters :
        /\ matters[m].status = "active"
        /\ matters[m].asana_project_id # ""
        /\ (matter_id # 0 => m = matter_id)}

\* the matters process p has yet to work through
InQueue(run) == {run.matters[i].pk : i \in DOMAIN run.matters}

\* C15: the matters a sync run sets out to process are exactly those active
\* with a project id when it starts, cut down to the one named by --matter-id
\* if given, and a run with none of them returns at once; the run fetches the
\* tasks of those matters only, under the project id each had, and a Deadline
\* is created or changed only for the matter whose tasks are being processed
C15_SyncScope ==
    [][/\ \A p \in Procs :
          /\ (sync[p].pc = "idle" /\ sync'[p].pc # "idle") =>
                /\ InQueue(sync'[p]) = InScope(sync'[p].matter_id)
                /\ \A i \in DOMAIN sync'[p].matters :
                      sync'[p].matters[i].asana_project_id =
                          matters[sync'[p].matters[i].pk].asana_project_id
          /\ (sync[p].pc # "idle" /\ sync'[p].pc # "idle") =>
                /\ \/ sync'[p].matters = sync[p].matters
                   \/ /\ sync[p].matters # <<>>
                      /\ sync'[p].matters = Tail(sync[p].matters)
                /\ sync'[p].matter_id = sync[p].matter_id
          /\ (sync[p].pc = "matter" /\ sync'[p].pc # "idle"
                 /\ sync'[p].visited # sync[p].visited) =>
                /\ sync'[p].visited =
                      Append(sync[p].visited, Head(sync[p].matters).pk)
                /\ sync'[p].pc = "task" =>
                      sync'[p].tasks = asana[Head(sync[p].matters).asana_project_id]
       /\ (token /\ SyncReturnStep) =>
             /\ InScope(hist'.last.matter_id) = {}
             /\ UNCHANGED deadlines
       /\ deadlines' # deadlines =>
             \E p \in Procs :
                /\ TaskStep(p)
                /\ Len(deadlines') >= Len(deadlines)
                /\ \A i \in 1..Len(deadlines') :
                      (i > Len(deadlines) \/ deadlines'[i] # deadlines[i]) =>
                          deadlines'[i].matter = Head(sync[p].matters).pk]_vars

\* a run given --matter-id 2 has created a Deadline for matter 2 while
\* matter 1 was active with a project id too
C15_Witness ==
    /\ hist.last.op = "task"
    /\ hist.last.did = "created"
    /\ hist.last.matter = 2
    /\ sync[hist.last.p].matter_id = 2
    /\ ~sync[hist.last.p].dry_run
    /\ 1 \in InScope(0)
    /\ deadlines[Len(deadlines)].matter = 2

-----------------------------------------------------------------------------
(* The type of a Deadline the sync job creates *)

\* C16: a Deadline the sync job creates has a deadline_type whose matter_type
\* is the matter_type of the matter the Deadline belongs to
C16_TypeAgreement ==
    [][\A p \in Procs :
          (TaskStep(p) /\ Len(deadlines') = Len(deadlines) + 1) =>
              LET d == deadlines'[Len(deadlines')]
              IN  deadlineTypes[d.deadline_type].matter_type =
                      matters[d.matter].matter_type]_vars

-----------------------------------------------------------------------------
(* SpecOverlap: two processes, each of which may run either command while    *)
(* the other is running one; the query and the write of a sync task are      *)
(* separate steps                                                            *)

InitOverlap ==
    /\ InitRest(MaxEvents + 1)
    /\ asana = [pr \in {"p1", "p2"} |->
                   IF pr = "p1"
                   THEN << Task(Some(<<"A", "b">>), Some(5), "g1", FALSE, NoValue) >>
                   ELSE <<>>]
    /\ deadlines = << ManualDeadline(1, 2, {2}, "upcoming") >>

OverlapSyncer(p) ==
    \/ \E dry_run \in BOOLEAN : SyncStart(p, dry_run, 1)
    \/ \E answered \in BOOLEAN : SyncFetch(p, answered)
    \/ SyncLookup(p)
    \/ SyncWrite(p)
    \/ SyncMatterDone(p)
    \/ SyncFinish(p)

NextOverlap ==
    \/ Dispatcher(1)
    \/ Dispatcher(2)
    \/ OverlapSyncer(1)
    \/ OverlapSyncer(2)

SpecOverlap == InitOverlap /\ [][NextOverlap]_vars

\* no two Deadlines of one matter carry the same external task id
NoDuplicateDeadline ==
    \A i, j \in 1..Len(deadlines) :
        i < j => \/ deadlines[i].matter # deadlines[j].matter
                 \/ deadlines[i].asana_task_id # deadlines[j].asana_task_id

\* the 'sent' logs that log row is a second copy of
SentTwins(row) ==
    {i \in 1..Len(reminderLogs) :
        /\ reminderLogs[i].status = "sent"
        /\ row.status = "sent"
        /\ reminderLogs[i].deadline = row.deadline
        /\ reminderLogs[i].days_before = row.days_before
        /\ reminderLogs[i].sent_at = row.sent_at}

\* the Deadlines that Deadline row is a second copy of
DeadlineTwins(row) ==
    {i \in 1..Len(deadlines) :
        /\ deadlines[i].matter = row.matter
        /\ deadlines[i].asana_task_id = row.asana_task_id}

\* process p writes after the query it made
WriteStep(p) == sync[p].pc = "write" /\ sync'[p] # sync[p]

\* C17: as long as no dispatcher run was started while another was in
\* progress, no two 'sent' logs share deadline, offset and day, and as long
\* as no sync run was started while another was in progress, no two Deadlines
\* share matter and external task id; when a run does write a second 'sent'
\* log or a second Deadline, the first was written by another run after this
\* run's query and before its write
C17_CheckThenWrite ==
    [][/\ "send_reminders" \notin hist'.overlap => AtMostOneSentPerDay'
       /\ "sync_asana" \notin hist'.overlap => NoDuplicateDeadline'
       /\ \A p \in Procs :
             (SendStep(p) /\ Len(reminderLogs') = Len(reminderLogs) + 1) =>
                 \A i \in SentTwins(reminderLogs'[Len(reminderLogs')]) :
                     /\ i > disp[p].seen
                     /\ "send_reminders" \in hist.overlap
       /\ \A p \in Procs :
             (WriteStep(p) /\ Len(deadlines') = Len(deadlines) + 1) =>
                 \A i \in DeadlineTwins(deadlines'[Len(deadlines')]) :
                     /\ i > sync[p].seen
                     /\ "sync_asana" \in hist.overlap]_vars

\* the same reminder was delivered twice and logged 'sent' twice on one day,
\* and two Deadlines were created for one task of one matter
C17_Witness ==
    /\ ~AtMostOneSentPerDay
    /\ \E i, j \in 1..Len(outbox) :
          /\ i < j
          /\ outbox[i] = outbox[j]
    /\ \E i, j \in 1..Len(deadlines) :
          /\ i < j
          /\ deadlines[i].matter = deadlines[j].matter
          /\ deadlines[i].asana_task_id = deadlines[j].asana_task_id
          /\ deadlines[i].asana_task_id # ""

-----------------------------------------------------------------------------
(* Retrying a failed delivery by running the dispatcher again *)

\* a log of that status for deadline pk at offset k dated day
LoggedOn(status, pk, k, day) ==
    \E i \in 1..Len(reminderLogs) :
        /\ reminderLogs[i].deadline = pk
        /\ reminderLogs[i].days_before = k
        /\ reminderLogs[i].status = status
        /\ reminderLogs[i].sent_at = day

-----------------------------------------------------------------------------
(* What a dry run reports against what the run after it does *)

\* the 'failed' logs a finished dispatcher run wrote
FailedBy(run) ==
    {i \in (run.log0 + 1)..Len(reminderLogs) : reminderLogs[i].status = "failed"}

\* a dispatcher run that was not a dry run has ended, the run before it was a
\* dry run of the same day that fetched the same rows and found the same
\* 'sent' logs: the e-mails the dry run reported are as many as the
\* deliveries the later run attempted, and the skipped counts are equal
DryDispatchAgrees ==
    (/\ DispatchSummary
     /\ hist.last.before # <<>>)
    => LET dry == hist.last.before[1]
           real == hist.last.run
       IN  (/\ dry.dry_run
            /\ ~real.dry_run
            /\ dry.today = real.today
            /\ dry.fetched = real.fetched
            /\ dry.dup = real.dup)
           => /\ dry.sent_count = real.sent_count + Cardinality(FailedBy(real))
              /\ dry.skip_count = real.skip_count

\* a sync run that was not a dry run has ended, the run before it was a dry
\* run of the same scope, no edit and no external change was made since the
\* dry run began and the external API refused the same fetches: the created,
\* updated and skipped counts of the two runs are equal
DrySyncAgrees ==
    (/\ hist.last.op = "summary"
     /\ hist.last.job = "sync_asana"
     /\ hist.last.before # <<>>)
    => LET dry == hist.last.before[1].run
           real == hist.last.run
       IN  (/\ dry.dry_run
            /\ ~real.dry_run
            /\ dry.matter_id = real.matter_id
            /\ dry.deadline_types = real.deadline_types
            /\ dry.refused = real.refused
            /\ dry.store0 = real.store0
            /\ hist.last.changes = dry.changes0)
           => /\ dry.created_count = real.created_count
              /\ dry.updated_count = real.updated_count
              /\ dry.skipped_count = real.skipped_count

\* C19: from the same store and the same external data a dry run reports
\* what a run that is not a dry run does: the dispatcher's 'sent' count is
\* the number of deliveries attempted and its skipped count is equal; the
\* sync job's created, updated and skipped counts are equal
C19_DryRunReports == DryDispatchAgrees /\ DrySyncAgrees

-----------------------------------------------------------------------------
(* SpecFault: the dispatcher where a write of a ReminderLog may raise *)

\* lines 106-133 where send_mail has returned and the create of the 'sent'
\* row raises: the except clause catches that too and creates a 'failed' row
\* with the text of the exception; sent_count is not reached. If that create
\* raises as well (answered is FALSE) the exception leaves handle and the
\* command ends without a summary
DispatchSendFault(p, answered) ==
    /\ disp[p].pc = "send"
    /\ ~disp[p].dry_run
    /\ LET dl == Head(disp[p].queue)
           days_until == dl.row.date - disp[p].today
       IN  /\ outbox' = Append(outbox,
                  [to |-> dl.recipient, deadline |-> dl.pk,
                   date |-> dl.row.date, days_until |-> days_until,
                   day |-> now])
           /\ IF answered
              THEN /\ reminderLogs' = Append(reminderLogs,
                         NewReminderLog(dl.pk, dl.recipient, days_until, "failed",
                                        "database error", now))
                   /\ disp' = [disp EXCEPT ![p] =
                         [@ EXCEPT !.pc = "loop", !.queue = Tail(@)]]
              ELSE /\ UNCHANGED reminderLogs
                   /\ disp' = [disp EXCEPT ![p] = DispIdle]
           /\ hist' = [hist EXCEPT !.last =
                 [op |-> "send", p |-> p, dl |-> dl, days_until |-> days_until,
                  outcome |-> IF answered THEN "sent, logged failed"
                              ELSE "sent, not logged"]]
    /\ UNCHANGED <<now, matters, deadlineTypes, deadlines, asana, token, sync, match>>

DispatchFault == \E answered \in BOOLEAN : DispatchSendFault(1, answered)

NextFault == NextRemind \/ DispatchFault

SpecFault == InitRemind /\ [][NextFault]_vars

\* C20: when a run that is not a dry run hands an e-mail to the transport
\* and the transport returns, the step leaves one new ReminderLog, a 'sent'
\* row of that deadline and offset, and no 'failed' row; a 'failed' row is
\* written only by a step that delivered nothing; and no e-mail of one
\* deadline and offset is delivered twice on one day
C20_FailedMeansUndelivered ==
    [][/\ \A p \in Procs :
          (SendStep(p) /\ outbox' # outbox) =>
              LET dl == Head(disp[p].queue)
              IN  /\ Len(reminderLogs') = Len(reminderLogs) + 1
                  /\ reminderLogs'[Len(reminderLogs')].status = "sent"
                  /\ reminderLogs'[Len(reminderLogs')].deadline = dl.pk
                  /\ reminderLogs'[Len(reminderLogs')].days_before =
                         dl.row.date - disp[p].today
       /\ (/\ Len(reminderLogs') = Len(reminderLogs) + 1
           /\ reminderLogs'[Len(reminderLogs')].status = "failed")
          => outbox' = outbox
       /\ \A i, j \in 1..Len(outbox') :
             (/\ i < j
              /\ outbox'[i].deadline = outbox'[j].deadline
              /\ outbox'[i].days_until = outbox'[j].days_until)
             => outbox'[i].day # outbox'[j].day]_vars

\* the consequence alone: no e-mail of one deadline and offset is delivered
\* twice on one day
NoRedelivery ==
    \A i, j \in 1..Len(outbox) :
        (/\ i < j
         /\ outbox[i].deadline = outbox[j].deadline
         /\ outbox[i].days_until = outbox[j].days_until)
        => outbox[i].day # outbox[j].day

-----------------------------------------------------------------------------
(* The Deadlines a sync run may change *)

\* C21: a step of a sync run deletes no Deadline, and the only Deadlines it
\* changes are Deadlines of the matter in hand that carry the external id of
\* the task in hand, an id that is not blank, and of those it changes only
\* the date and the status; a Deadline whose asana_task_id is blank is after
\* the step what it was before
C21_ManualUntouched ==
    [][\A p \in Procs :
          sync'[p] # sync[p] =>
              /\ Len(deadlines') >= Len(deadlines)
              /\ \A i \in 1..Len(deadlines) :
                    deadlines'[i] # deadlines[i] =>
                        /\ TaskStep(p)
                        /\ deadlines[i].asana_task_id # ""
                        /\ deadlines[i].asana_task_id = Head(sync[p].tasks).gid
                        /\ deadlines[i].matter = Head(sync[p].matters).pk
                        /\ deadlines'[i] = [deadlines[i] EXCEPT
                                               !.date = deadlines'[i].date,
                                               !.status = deadlines'[i].status]]_vars

-----------------------------------------------------------------------------
(* Reminders of one deadline on one day *)

\* a 'sent' log of deadline pk dated day with an offset other than k
SentAtOtherOffset(pk, k, day) ==
    \E i \in 1..Len(reminderLogs) :
        /\ reminderLogs[i].deadline = pk
        /\ reminderLogs[i].status = "sent"
        /\ reminderLogs[i].sent_at = day
        /\ reminderLogs[i].days_before # k

\* no two e-mails delivered on one day are for one deadline at one date
OnePerDayAndDate ==
    \A i, j \in 1..Len(outbox) :
        (/\ i < j
         /\ outbox[i].deadline = outbox[j].deadline
         /\ outbox[i].day = outbox[j].day)
        => outbox[i].date # outbox[j].date

\* a run that finds a 'sent' log of today for the deadline at another offset,
\* none at the offset it computes, the send condition met and a recipient,
\* goes on to deliver
SecondOffsetSends ==
    [][\A p \in Procs :
          CheckStep(p) =>
              LET dl == Head(disp[p].queue)
                  k == dl.row.date - disp[p].today
              IN  (/\ SentAtOtherOffset(dl.pk, k, disp[p].today)
                   /\ ~LoggedOn("sent", dl.pk, k, disp[p].today)
                   /\ SendCondition(k, OwnOrDefaultDays(dl.row))
                   /\ dl.recipient # "")
                  => disp'[p].pc = "send"]_vars

OnRunDay(i) == outbox[i].date - outbox[i].days_until = outbox[i].day

\* no two e-mails delivered on one day, each by a run begun that day, are for
\* one deadline at one date
OnePerRunDayAndDate ==
    \A i, j \in 1..Len(outbox) :
        (/\ i < j
         /\ outbox[i].deadline = outbox[j].deadline
         /\ outbox[i].day = outbox[j].day
         /\ OnRunDay(i)
         /\ OnRunDay(j))
        => outbox[i].date # outbox[j].date

=============================================================================
